---- MODULE Spec2Model ----
(***************************************************************************)
(* Shotcut's proxy manager (src/src/proxymanager.cpp): the proxy cache     *)
(* (ready files and pending markers in the project's proxies folder and in *)
(* the global proxy folder), the submission of transcode jobs, and the     *)
(* rewriting of a saved project document.                                  *)
(*                                                                         *)
(* A QString is a sequence of tokens.  A token is one character ("/", "a") *)
(* or an atomic piece of a name (".pending", ".mp4", "proxies"); prefix    *)
(* tests and mid() work on tokens.                                         *)
(***************************************************************************)
EXTENDS Integers, Sequences, FiniteSets, TLC

VARIABLES
    settings,       \* Settings: proxyEnabled, proxyUseProjectFolder, playerPreviewScale,
                    \* proxyUseHardware, encodeHardware
    projectFolder,  \* MLT.projectFolder()
    readOnly,       \* directories in which no entry can be created or written
    dirs,           \* the directories that exist
    files,          \* the files that exist: [path, len]
    producers,      \* the Mlt::Producer objects of the media graph, by clip
    jobs,           \* JOBS, in submission order
    inputDocument,  \* the tokens of the project document handed to filterXML
    inputRoot,      \* the root folder handed to filterXML
    xml,            \* what the filterXML call that ran last left its caller
    callers,        \* the generateIfNotExists calls in progress side by side
    ffmpeg,         \* the generateVideoProxy call observed last, with its args
    last            \* the operation that ran last, and what it returned

vars == <<settings, projectFolder, readOnly, dirs, files, producers, jobs,
          inputDocument, inputRoot, xml, callers, ffmpeg, last>>

\* what no operation changes
environment == <<settings, projectFolder, readOnly, inputDocument, inputRoot>>

\* what no operation changes when the calls run one at a time and the
\* command line of the job is not observed
config == <<environment, callers, ffmpeg>>

(***************************************************************************)
(* Bounds of the model.                                                    *)
(***************************************************************************)
MaxJobs == 2
NumClips == 2

Clips == 1..NumClips

(***************************************************************************)
(* Program constants.                                                      *)
(***************************************************************************)
kProxyVideoExtension == <<".mp4">>
kProxyPendingVideoExtension == <<".pending", ".mp4">>
kProxyImageExtension == <<".jpg">>
kProxyPendingImageExtension == <<".pending", ".jpg">>
\* kProxyResolutionRatio = 1.3f, in tenths
kProxyResolutionRatio == 13
kFallbackProxyResolution == 540
kIsProxyProperty == "shotcut:proxy"
kOriginalResourceProperty == "shotcut:originalResource"

(***************************************************************************)
(* QString and QDir.                                                       *)
(***************************************************************************)
\* a property that is not set: Mlt::Properties::get returns a null pointer
Null == <<"(null)">>

startsWith(s, prefix) ==
    /\ Len(prefix) <= Len(s)
    /\ SubSeq(s, 1, Len(prefix)) = prefix

endsWith(s, token) == Len(s) > 0 /\ s[Len(s)] = token

\* QString::mid(position): the string from position (0-based) on
mid(s, position) ==
    IF position >= Len(s) THEN <<>> ELSE SubSeq(s, position + 1, Len(s))

\* QDir::filePath(fileName)
filePath(d, fileName) ==
    IF d = <<>> THEN fileName
    ELSE IF endsWith(d, "/") THEN d \o fileName
    ELSE d \o <<"/">> \o fileName

RECURSIVE lastSlash(_, _)
lastSlash(path, i) ==
    IF i = 0 THEN 0
    ELSE IF path[i] = "/" THEN i
    ELSE lastSlash(path, i - 1)

\* QFileInfo::path(): the directory part of a file path
dirName(path) ==
    LET i == lastSlash(path, Len(path))
    IN  IF i <= 1 THEN <<>> ELSE SubSeq(path, 1, i - 1)

\* QDir::exists(): QDir("") is the current directory
dirExists(ds, d) == d = <<>> \/ d \in ds

\* QDir::exists(fileName), QFile::exists
fileAt(fs, path) == \E f \in fs : f.path = path

\* QDir::cd(subfolder) succeeds when the subfolder is a directory
cd(ds, d, subfolder) == filePath(d, subfolder) \in ds

canCreateIn(ds, d) == dirExists(ds, d) /\ d \notin readOnly

\* QDir::mkdir(subfolder): fails in a read-only directory and when an entry
\* of that name exists
mkdir(ds, fs, d, subfolder) ==
    /\ canCreateIn(ds, d)
    /\ filePath(d, subfolder) \notin ds
    /\ ~fileAt(fs, filePath(d, subfolder))

\* Settings.proxyFolder()
proxyFolder == <<"/", "g">>

\* The file a QFile(fileName) in directory d is after open(WriteOnly),
\* resize(0), close(): created or truncated when it can be opened, and left
\* as it was when open fails (resize of a file that was not opened truncates
\* by path, which fails for the same reason)
touch(ds, fs, d, fileName) ==
    IF canCreateIn(ds, d)
    THEN {f \in fs : f.path # fileName} \cup {[path |-> fileName, len |-> 0]}
    ELSE fs

(***************************************************************************)
(* The cache locator.                                                      *)
(***************************************************************************)
\* QString::startsWith("avformat") on the service name
isAvformat(service) == service \in {"avformat", "avformat-novalidate"}

\* isValidImage without the test for an image sequence
isValidImageOrSequence(producer) ==
    producer.mlt_service \in {"qimage", "pixbuf"}

isValidImage(producer) ==
    /\ producer.mlt_service \in {"qimage", "pixbuf"}
    /\ producer.sequence = 0

\* the last line of fileExists and filePending
existsInProxyDirs(w, fileName) ==
    \/ /\ cd(w.dirs, projectFolder, <<"proxies">>)
       /\ fileAt(w.files, filePath(filePath(projectFolder, <<"proxies">>), fileName))
    \/ fileAt(w.files, filePath(proxyFolder, fileName))

fileExists(w, producer) ==
    IF isAvformat(producer.mlt_service)
    THEN existsInProxyDirs(w, producer.hash \o kProxyVideoExtension)
    ELSE IF isValidImage(producer)
    THEN existsInProxyDirs(w, producer.hash \o kProxyImageExtension)
    ELSE FALSE

\* filePending probing the project's proxies folder only
filePendingProjectOnly(w, producer) ==
    /\ cd(w.dirs, projectFolder, <<"proxies">>)
    /\ fileAt(w.files,
              filePath(filePath(projectFolder, <<"proxies">>),
                       producer.hash \o (IF isAvformat(producer.mlt_service)
                                         THEN kProxyPendingVideoExtension
                                         ELSE kProxyPendingImageExtension)))

filePending(w, producer) ==
    IF isAvformat(producer.mlt_service)
    THEN existsInProxyDirs(w, producer.hash \o kProxyPendingVideoExtension)
    ELSE IF isValidImage(producer)
    THEN existsInProxyDirs(w, producer.hash \o kProxyPendingImageExtension)
    ELSE FALSE

\* the suffix accessors
videoFilenameExtension == kProxyVideoExtension
pendingVideoExtension == kProxyPendingVideoExtension
imageFilenameExtension == kProxyImageExtension
pendingImageExtension == kProxyImageExtension

resolution ==
    IF settings.playerPreviewScale # 0
    THEN settings.playerPreviewScale
    ELSE kFallbackProxyResolution

\* qRound(kProxyResolutionRatio * resolution())
threshold == (kProxyResolutionRatio * resolution + 5) \div 10

(***************************************************************************)
(* ProxyManager::dir and ProxyManager::resource.  A world w is the part of *)
(* the state an operation changes: [dirs, files, producers, jobs].         *)
(***************************************************************************)
\* the directory dir() returns
dir(w) ==
    IF /\ projectFolder # <<>>
       /\ dirExists(w.dirs, projectFolder)
       /\ settings.proxyUseProjectFolder
    THEN IF cd(w.dirs, projectFolder, <<"proxies">>)
         THEN filePath(projectFolder, <<"proxies">>)
         ELSE IF mkdir(w.dirs, w.files, projectFolder, <<"proxies">>)
         THEN filePath(projectFolder, <<"proxies">>)
         ELSE projectFolder
    ELSE proxyFolder

\* the directories after dir(): its mkdir may have created the subfolder
dirMkdir(w) ==
    IF /\ projectFolder # <<>>
       /\ dirExists(w.dirs, projectFolder)
       /\ settings.proxyUseProjectFolder
       /\ ~cd(w.dirs, projectFolder, <<"proxies">>)
       /\ mkdir(w.dirs, w.files, projectFolder, <<"proxies">>)
    THEN w.dirs \cup {filePath(projectFolder, <<"proxies">>)}
    ELSE w.dirs

resource(producer) ==
    IF producer.isProxy # 0 /\ producer.originalResource # Null
    THEN producer.originalResource
    ELSE IF producer.mlt_service = "timewarp"
    THEN producer.warp_resource
    ELSE producer.resource

(***************************************************************************)
(* The jobs.                                                               *)
(***************************************************************************)
ProxyFinalizePostJobAction(fileName) ==
    [type |-> "Finalize", dstFile |-> fileName, srcFile |-> Null, hash |-> Null]

ProxyReplacePostJobAction(srcFile, fileName, hash) ==
    [type |-> "Replace", dstFile |-> fileName, srcFile |-> srcFile, hash |-> hash]

postJobAction(rsrc, fileName, hash, replace) ==
    IF replace
    THEN ProxyReplacePostJobAction(rsrc, fileName, hash)
    ELSE ProxyFinalizePostJobAction(fileName)

\* new FfmpegJob(fileName, args, false) / new MeltJob(fileName, args, 1, 1)
\* with its post-job action; caller is the operation that submitted it
newJob(type, fileName, action, hash, caller) ==
    [type |-> type, out |-> fileName, action |-> action, hash |-> hash,
     caller |-> caller, status |-> "queued"]

\* the video file name built with the ready extension
readyVideoFile(w, producer) ==
    filePath(dir(w), producer.hash \o kProxyVideoExtension)

pendingVideoFile(w, producer) ==
    filePath(dir(w), producer.hash \o kProxyPendingVideoExtension)

pendingImageFile(w, producer) ==
    filePath(dir(w), producer.hash \o kProxyPendingImageExtension)

(***************************************************************************)
(* The ffmpeg command line of generateVideoProxy.  An argument is a string *)
(* of tokens, args is the QStringList.                                     *)
(***************************************************************************)
Digits == <<"0", "1", "2", "3", "4", "5", "6", "7", "8", "9">>

\* QString::arg(int) of a number that is not negative
RECURSIVE number(_)
number(n) ==
    IF n < 10
    THEN <<Digits[n + 1]>>
    ELSE number(n \div 10) \o <<Digits[(n % 10) + 1]>>

\* a QStringList of string literals
literals(strings) == [i \in 1..Len(strings) |-> <<strings[i]>>]

\* QStringList::contains
contains(args, string) == \E i \in 1..Len(args) : args[i] = <<string>>

\* a deinterlace stage that forces a parity in every mode but Progressive
filtersForcingParity(scanMode) ==
    (IF scanMode # "Progressive"
     THEN <<"yadif=", "parity=",
            IF scanMode = "InterlacedBottomFieldFirst" THEN "bff" ELSE "tff", ",">>
     ELSE <<>>)
    \o <<"scale=", "width=-2", ":", "height=">> \o number(resolution)

\* lines 103-108: the deinterlace stage and the scale stage
filters(scanMode) ==
    (IF scanMode = "Automatic"
     THEN <<"yadif=", "deint=interlaced", ",">>
     ELSE IF scanMode # "Progressive"
     THEN <<"yadif=", "parity=",
            IF scanMode = "InterlacedTopFieldFirst" THEN "tff" ELSE "bff", ",">>
     ELSE <<>>)
    \o <<"scale=", "width=-2", ":", "height=">> \o number(resolution)

\* lines 109-111
hwFilters ==
    IF /\ settings.proxyUseHardware
       /\ \/ "hevc_vaapi" \in settings.encodeHardware
          \/ "h264_vaapi" \in settings.encodeHardware
    THEN <<",", "format=nv12", ",", "hwupload">>
    ELSE <<>>

\* lines 112-118: the filter expression and the range tag
rangeArgs(scanMode, fullRange) ==
    IF fullRange
    THEN << filters(scanMode) \o <<":", "in_range=full", ":", "out_range=full">>
              \o hwFilters >>
         \o literals(<<"-color_range", "jpeg">>)
    ELSE << filters(scanMode) \o <<":", "in_range=mpeg", ":", "out_range=mpeg">>
              \o hwFilters >>
         \o literals(<<"-color_range", "mpeg">>)

\* lines 96-99
mapArgs(producer) ==
    IF producer.video_index < producer.audio_index
    THEN literals(<<"-map", "0:v?", "-map", "0:a?">>)
    ELSE literals(<<"-map", "0:a?", "-map", "0:v?">>)

colorArgs(primaries, trc, colorspace) ==
    literals(<<"-color_primaries", primaries, "-color_trc", trc,
               "-colorspace", colorspace>>)

\* lines 119-150
colorspaceArgs(producer) ==
    CASE producer.colorspace = 601 ->
            IF producer.height = 576
            THEN colorArgs("bt470bg", "smpte170m", "bt470bg")
            ELSE colorArgs("smpte170m", "smpte170m", "smpte170m")
      [] producer.colorspace = 170 -> colorArgs("smpte170m", "smpte170m", "smpte170m")
      [] producer.colorspace = 240 -> colorArgs("smpte240m", "smpte240m", "smpte240m")
      [] producer.colorspace = 470 -> colorArgs("bt470bg", "bt470bg", "bt470bg")
      [] OTHER -> colorArgs("bt709", "bt709", "bt709")

\* QPoint::isNull
isNull(point) == point[1] = 0 /\ point[2] = 0

\* lines 151-153
aspectArgs(aspectRatio) ==
    IF ~isNull(aspectRatio)
    THEN << <<"-aspect">>,
            number(aspectRatio[1]) \o <<":">> \o number(aspectRatio[2]) >>
    ELSE <<>>

\* a cascade that tries hevc_vaapi first
hardwareEncoderPreferringVaapi ==
    LET hwCodecs == settings.encodeHardware
    IN  IF settings.proxyUseHardware
        THEN IF "hevc_vaapi" \in hwCodecs
             THEN literals(<<"-init_hw_device", "vaapi=vaapi0:,connection_type=x11",
                             "-filter_hw_device", "vaapi0",
                             "-codec:v", "hevc_vaapi", "-qp", "37">>)
             ELSE IF "hevc_nvenc" \in hwCodecs
             THEN literals(<<"-codec:v", "hevc_nvenc", "-rc", "constqp",
                             "-vglobal_quality", "37">>)
             ELSE IF "hevc_qsv" \in hwCodecs
             THEN literals(<<"-load_plugin", "hevc_hw", "-codec:v", "hevc_qsv",
                             "-global_quality:v", "36", "-look_ahead", "1">>)
             ELSE IF "hevc_amf" \in hwCodecs
             THEN literals(<<"-codec:v", "hevc_amf", "-rc", "1",
                             "-qp_i", "32", "-qp_p", "32">>)
             ELSE IF "h264_vaapi" \in hwCodecs
             THEN literals(<<"-init_hw_device", "vaapi=vaapi0:,connection_type=x11",
                             "-filter_hw_device", "vaapi0",
                             "-codec:v", "h264_vaapi", "-qp", "30">>)
             ELSE IF "hevc_videotoolbox" \in hwCodecs
             THEN literals(<<"-codec:v", "hevc_videotoolbox", "-b:v", "2M">>)
             ELSE <<>>
        ELSE <<>>

\* lines 157-183: the first hardware encoder of the list, in the order of
\* the else-if chain
hardwareEncoder ==
    LET hwCodecs == settings.encodeHardware
    IN  IF settings.proxyUseHardware
        THEN IF "hevc_nvenc" \in hwCodecs
             THEN literals(<<"-codec:v", "hevc_nvenc", "-rc", "constqp",
                             "-vglobal_quality", "37">>)
             ELSE IF "hevc_qsv" \in hwCodecs
             THEN literals(<<"-load_plugin", "hevc_hw", "-codec:v", "hevc_qsv",
                             "-global_quality:v", "36", "-look_ahead", "1">>)
             ELSE IF "hevc_amf" \in hwCodecs
             THEN literals(<<"-codec:v", "hevc_amf", "-rc", "1",
                             "-qp_i", "32", "-qp_p", "32">>)
             ELSE IF "hevc_vaapi" \in hwCodecs
             THEN literals(<<"-init_hw_device", "vaapi=vaapi0:,connection_type=x11",
                             "-filter_hw_device", "vaapi0",
                             "-codec:v", "hevc_vaapi", "-qp", "37">>)
             ELSE IF "h264_vaapi" \in hwCodecs
             THEN literals(<<"-init_hw_device", "vaapi=vaapi0:,connection_type=x11",
                             "-filter_hw_device", "vaapi0",
                             "-codec:v", "h264_vaapi", "-qp", "30">>)
             ELSE IF "hevc_videotoolbox" \in hwCodecs
             THEN literals(<<"-codec:v", "hevc_videotoolbox", "-b:v", "2M">>)
             ELSE <<>>
        ELSE <<>>

\* lines 184-188: the software encoder when no -codec:v is in args yet
softwareEncoder(args) ==
    IF ~contains(args, "-codec:v")
    THEN literals(<<"-codec:v", "libx264", "-preset", "veryfast", "-crf", "23">>)
    ELSE <<>>

\* lines 92-189: the args of the FfmpegJob
ffmpegArgs(w, c, fullRange, scanMode, aspectRatio) ==
    LET producer == w.producers[c]
        head == literals(<<"-loglevel", "verbose", "-i">>)
                  \o <<resource(producer)>>
                  \o literals(<<"-max_muxing_queue_size", "9999">>)
                  \o mapArgs(producer)
                  \o literals(<<"-map_metadata", "0", "-ignore_unknown", "-vf">>)
                  \o rangeArgs(scanMode, fullRange)
                  \o colorspaceArgs(producer)
                  \o aspectArgs(aspectRatio)
                  \o literals(<<"-f", "mp4", "-codec:a", "ac3", "-b:a", "256k",
                                "-pix_fmt", "yuv420p">>)
                  \o hardwareEncoder
    IN  head \o softwareEncoder(head)
             \o literals(<<"-g", "1", "-bf", "0", "-y">>)
             \o <<pendingVideoFile(w, producer)>>

\* no call of generateVideoProxy observed yet
NoCall ==
    [fullRange |-> FALSE, scanMode |-> "Automatic", aspectRatio |-> <<0, 0>>,
     args |-> <<>>]

generateVideoProxy(w, c, replace, caller) ==
    LET producer == w.producers[c]
        fileName == pendingVideoFile(w, producer)
        ds == dirMkdir(w)
    IN  [w EXCEPT
            !.dirs = ds,
            !.files = touch(ds, w.files, dir(w), fileName),
            !.jobs = Append(w.jobs,
                        newJob("FfmpegJob", fileName,
                               postJobAction(resource(producer), fileName,
                                             producer.hash, replace),
                               producer.hash, caller))]

generateImageProxy(w, c, replace, caller) ==
    LET producer == w.producers[c]
        fileName == pendingImageFile(w, producer)
        ds == dirMkdir(w)
    IN  [w EXCEPT
            !.dirs = ds,
            !.files = touch(ds, w.files, dir(w), fileName),
            !.jobs = Append(w.jobs,
                        newJob("MeltJob", fileName,
                               postJobAction(resource(producer), fileName,
                                             producer.hash, replace),
                               producer.hash, caller))]

(***************************************************************************)
(* generateIfNotExists and generateIfNotExistsAll.                         *)
(***************************************************************************)
largerThanThreshold(producer) ==
    producer.width > threshold /\ producer.height > threshold

\* lines 421-437: the proxy file name, and the producer retargeted at it
readyFileName(producer) ==
    IF isAvformat(producer.mlt_service)
    THEN producer.hash \o kProxyVideoExtension
    ELSE producer.hash \o kProxyImageExtension

\* the producer retargeted without the stash of its resource
retargetedWithoutStash(w, producer) ==
    [producer EXCEPT
        !.isProxy = 1,
        !.resource = filePath(proxyFolder,
                              IF isAvformat(producer.mlt_service)
                              THEN producer.hash \o kProxyVideoExtension
                              ELSE producer.hash \o kProxyImageExtension)]

retargeted(w, producer) ==
    LET fileName == readyFileName(producer)
    IN  [producer EXCEPT
            !.isProxy = 1,
            !.originalResource = producer.resource,
            !.resource =
                IF fileAt(w.files, filePath(projectFolder, fileName))
                THEN filePath(projectFolder, fileName)
                ELSE filePath(proxyFolder, fileName)]

\* the world after the call, and what the call returns
generateIfNotExists(w, c, replace) ==
    LET producer == w.producers[c]
    IN  IF /\ settings.proxyEnabled
           /\ producer.valid
           /\ producer.disableProxy = 0
           /\ producer.isProxy = 0
        THEN IF fileExists(w, producer)
             THEN IF isAvformat(producer.mlt_service) \/ isValidImage(producer)
                  THEN [w |-> [w EXCEPT !.producers[c] = retargeted(w, producer)],
                        ret |-> TRUE]
                  ELSE [w |-> w, ret |-> FALSE]
             ELSE IF ~filePending(w, producer)
             THEN IF isAvformat(producer.mlt_service)
                  THEN IF largerThanThreshold(producer)
                       THEN [w |-> generateVideoProxy(w, c, replace,
                                                      "generateIfNotExists"),
                             ret |-> FALSE]
                       ELSE [w |-> w, ret |-> FALSE]
                  ELSE IF isValidImage(producer)
                  THEN IF largerThanThreshold(producer)
                       THEN [w |-> generateImageProxy(w, c, replace,
                                                      "generateIfNotExists"),
                             ret |-> FALSE]
                       ELSE [w |-> w, ret |-> FALSE]
                  ELSE [w |-> w, ret |-> FALSE]
             ELSE [w |-> w, ret |-> FALSE]
        ELSE [w |-> w, ret |-> FALSE]

\* FindNonProxyProducersParser: the producers of the graph, in graph order,
\* that do not carry the proxy marker
RECURSIVE findNonProxyProducers(_, _)
findNonProxyProducers(w, c) ==
    IF c > NumClips THEN <<>>
    ELSE IF w.producers[c].isProxy = 0
    THEN <<c>> \o findNonProxyProducers(w, c + 1)
    ELSE findNonProxyProducers(w, c + 1)

\* the loop without the tag it sets on each clip
RECURSIVE generateAllLoopWithoutTag(_, _)
generateAllLoopWithoutTag(w, list) ==
    IF list = <<>> THEN w
    ELSE generateAllLoopWithoutTag(generateIfNotExists(w, Head(list), FALSE).w,
                                   Tail(list))

\* the loop of generateIfNotExistsAll over parser.producers()
RECURSIVE generateAllLoop(_, _)
generateAllLoop(w, list) ==
    IF list = <<>> THEN w
    ELSE LET after == generateIfNotExists(w, Head(list), FALSE).w
         IN  generateAllLoop(
                 [after EXCEPT !.producers[Head(list)].isProxy = 1],
                 Tail(list))

generateIfNotExistsAll(w) == generateAllLoop(w, findNonProxyProducers(w, 1))

(***************************************************************************)
(* The document rewriter.  A document is the sequence of tokens the        *)
(* QXmlStreamReader reads from it, the output the sequence of tokens the   *)
(* QXmlStreamWriter is asked to write.  A property is a pair <<name,       *)
(* value>>: MltProperty.                                                   *)
(***************************************************************************)
Token(type, name, attributes, text) ==
    [type |-> type, name |-> name, attributes |-> attributes, text |-> text]

StartElement(name, attributes) == Token("StartElement", name, attributes, <<>>)
EndElement(name) == Token("EndElement", name, <<>>, <<>>)
Characters(text) == Token("Characters", "", <<>>, text)

\* the first loop of processProperties, from property i on: what it has
\* found in scan = [isProxy, newResource, service, speed]
RECURSIVE scanProperties(_, _, _)
scanProperties(properties, i, scan) ==
    IF i > Len(properties) THEN scan
    ELSE LET p == properties[i]
         IN  scanProperties(properties, i + 1,
                IF p[1] = kIsProxyProperty
                THEN [scan EXCEPT !.isProxy = TRUE]
                ELSE IF p[1] = kOriginalResourceProperty
                THEN [scan EXCEPT !.newResource = p[2]]
                ELSE IF scan.newResource = <<>> /\ p[1] = "resource"
                THEN [scan EXCEPT !.newResource = p[2]]
                ELSE IF p[1] = "mlt_service"
                THEN [scan EXCEPT !.service = p[2]]
                ELSE IF p[1] = "warp_speed"
                THEN [scan EXCEPT !.speed = p[2]]
                ELSE scan)

\* lines 266-271: the path made relative to root
relative(newResource, root) ==
    IF root # <<>> /\ startsWith(newResource, root)
    THEN IF endsWith(root, "/")
         THEN mid(newResource, Len(root))
         ELSE mid(newResource, Len(root) + 1)
    ELSE newResource

\* the second loop of processProperties, from property i on: newResource is
\* rewritten in place at every resource property
RECURSIVE filterProperties(_, _, _, _, _, _)
filterProperties(properties, i, newResource, service, speed, root) ==
    IF i > Len(properties) THEN <<>>
    ELSE LET p == properties[i]
         IN  IF p[1] = "resource"
             THEN LET r == relative(newResource, root)
                  IN  << <<p[1], IF service = <<"timewarp">>
                                 THEN speed \o <<":">> \o r
                                 ELSE r>> >>
                        \o filterProperties(properties, i + 1, r, service, speed, root)
             ELSE IF p[1] = "warp_resource"
             THEN << <<p[1], newResource>> >>
                    \o filterProperties(properties, i + 1, newResource, service, speed, root)
             ELSE IF p[1] # kIsProxyProperty /\ p[1] # kOriginalResourceProperty
             THEN <<p>>
                    \o filterProperties(properties, i + 1, newResource, service, speed, root)
             ELSE filterProperties(properties, i + 1, newResource, service, speed, root)

\* processProperties without the test of the proxy marker
processPropertiesAlways(properties, root) ==
    LET scan == scanProperties(properties, 1,
                    [isProxy |-> FALSE, newResource |-> <<>>,
                     service |-> <<>>, speed |-> <<"1">>])
    IN  filterProperties(properties, 1, scan.newResource, scan.service,
                         scan.speed, root)

\* the properties processProperties writes for the saved ones
processProperties(properties, root) ==
    LET scan == scanProperties(properties, 1,
                    [isProxy |-> FALSE, newResource |-> <<>>,
                     service |-> <<>>, speed |-> <<"1">>])
    IN  IF scan.isProxy
        THEN filterProperties(properties, 1, scan.newResource, scan.service,
                              scan.speed, root)
        ELSE properties

\* writeStartElement("property"), writeAttribute("name", p.first),
\* writeCharacters(p.second), writeEndElement() for each property
RECURSIVE writeProperties(_)
writeProperties(properties) ==
    IF properties = <<>> THEN <<>>
    ELSE << StartElement("property", << <<"name", Head(properties)[1]>> >>),
            Characters(Head(properties)[2]),
            EndElement("property") >>
           \o writeProperties(Tail(properties))

\* xml.attributes().value("name"): empty when there is no such attribute
RECURSIVE attributeValue(_, _)
attributeValue(attributes, name) ==
    IF attributes = <<>> THEN <<>>
    ELSE IF Head(attributes)[1] = name THEN Head(attributes)[2]
    ELSE attributeValue(Tail(attributes), name)

\* xml.readElementText() after the start tag at i - 1: the text up to the end
\* tag, where the reader stops (at), and whether it raised an error (a child
\* element, a parse error, the end of the input)
RECURSIVE readElementText(_, _, _)
readElementText(document, i, result) ==
    IF i > Len(document) THEN [text |-> result, at |-> i, error |-> TRUE]
    ELSE LET t == document[i]
         IN  IF t.type \in {"Characters", "EntityReference"}
             THEN readElementText(document, i + 1, result \o t.text)
             ELSE IF t.type = "EndElement"
             THEN [text |-> result, at |-> i, error |-> FALSE]
             ELSE IF t.type \in {"ProcessingInstruction", "Comment"}
             THEN readElementText(document, i + 1, result)
             ELSE [text |-> result, at |-> i, error |-> TRUE]

\* The while loop of filterXML from token i on: st = [isPropertyElement,
\* properties, out, error].  The reader is at its end after the last token
\* and after an error.
RECURSIVE readLoop(_, _, _, _)
readLoop(document, i, st, root) ==
    IF i > Len(document) \/ st.error THEN st
    ELSE LET t == document[i]
         IN  IF t.type = "Characters"
             THEN readLoop(document, i + 1,
                    IF ~st.isPropertyElement
                    THEN [st EXCEPT !.out = Append(@, t)]
                    ELSE st, root)
             ELSE IF t.type \in {"Comment", "DTD", "EntityReference",
                                 "ProcessingInstruction", "StartDocument",
                                 "EndDocument"}
             THEN readLoop(document, i + 1, [st EXCEPT !.out = Append(@, t)], root)
             ELSE IF t.type = "StartElement"
             THEN IF t.name = "property"
                  THEN LET r == readElementText(document, i + 1, <<>>)
                       IN  readLoop(document, r.at + 1,
                              [st EXCEPT
                                 !.properties =
                                     Append(@, <<attributeValue(t.attributes, "name"),
                                                 r.text>>),
                                 !.isPropertyElement = TRUE,
                                 !.error = r.error], root)
                  ELSE readLoop(document, i + 1,
                         [st EXCEPT
                            !.isPropertyElement = FALSE,
                            !.properties = <<>>,
                            !.out = @ \o writeProperties(
                                           processProperties(st.properties, root))
                                      \o <<t>>], root)
             ELSE IF t.type = "EndElement"
             THEN IF t.name # "property"
                  THEN readLoop(document, i + 1,
                         [st EXCEPT
                            !.properties = <<>>,
                            !.out = @ \o writeProperties(
                                           processProperties(st.properties, root))
                                      \o <<t>>], root)
                  ELSE readLoop(document, i + 1, st, root)
             ELSE [st EXCEPT !.error = TRUE]

TempFileName == <<"shotcut-XXXXXX", ".mlt">>

\* no filterXML call has run since the last other operation
NoXml ==
    [ran |-> FALSE, ret |-> FALSE, fileName |-> <<>>, out |-> <<>>,
     kept |-> FALSE, properties |-> <<>>]

\* filterXML that does not look at xml.hasError()
filterXMLIgnoringErrors(fileName, document, root, opened) ==
    LET st == readLoop(document, 1,
                  [isPropertyElement |-> FALSE, properties |-> <<>>,
                   out |-> <<>>, error |-> FALSE], root)
    IN  IF opened
        THEN [ran |-> TRUE, ret |-> TRUE,
              fileName |-> filePath(dirName(fileName), TempFileName),
              out |-> st.out, kept |-> TRUE, properties |-> st.properties]
        ELSE [ran |-> TRUE, ret |-> FALSE, fileName |-> fileName,
              out |-> <<>>, kept |-> FALSE, properties |-> <<>>]

\* filterXML(fileName, root) on a file that holds the tokens document: what it
\* returns, the caller's fileName afterwards, the temporary file's content
\* and whether that file is kept, and the properties left in the buffer.
\* opened: the document and the temporary file could both be opened.
filterXML(fileName, document, root, opened) ==
    LET st == readLoop(document, 1,
                  [isPropertyElement |-> FALSE, properties |-> <<>>,
                   out |-> <<>>, error |-> FALSE], root)
    IN  IF opened /\ ~st.error
        THEN [ran |-> TRUE, ret |-> TRUE,
              fileName |-> filePath(dirName(fileName), TempFileName),
              out |-> st.out, kept |-> TRUE, properties |-> st.properties]
        ELSE [ran |-> TRUE, ret |-> FALSE, fileName |-> fileName,
              out |-> IF opened THEN st.out ELSE <<>>, kept |-> FALSE,
              properties |-> IF opened THEN st.properties ELSE <<>>]

(***************************************************************************)
(* The job queue and the post-job actions (jobqueue.cpp, postjobaction.cpp *)
(* are not part of the sources at hand: modelled from the specification).  *)
(***************************************************************************)
\* Finalize: the pending file's ready name in the same directory, the base
\* name (up to the first ".") followed by the last suffix
promotedPath(path) ==
    LET i == lastSlash(path, Len(path))
    IN  SubSeq(path, 1, i + 1) \o <<path[Len(path)]>>

\* an operation other than filterXML returns
Returns(op, ret) ==
    /\ last' = [op |-> op, ret |-> ret]
    /\ xml' = NoXml

\* Replace retargets the live clips of the job's identity
replaced(producer, action) ==
    IF producer.valid /\ producer.hash = action.hash /\ producer.isProxy = 0
    THEN [producer EXCEPT
            !.isProxy = 1,
            !.originalResource = action.srcFile,
            !.resource = promotedPath(action.dstFile)]
    ELSE producer

\* The transcode ran to the end and wrote its output file, and the queue ran
\* the job's post-job action, once: Finalize and Replace promote the pending
\* file to its ready name, Replace then retargets the clips
JobSucceeds(i) ==
    LET action == jobs[i].action
    IN  /\ jobs[i].status = "queued"
        /\ canCreateIn(dirs, dirName(jobs[i].out))
        /\ files' = {f \in files : f.path \notin {action.dstFile,
                                                  promotedPath(action.dstFile)}}
                        \cup {[path |-> promotedPath(action.dstFile), len |-> 1]}
        /\ producers' =
             IF action.type = "Replace"
             THEN [c \in Clips |-> replaced(producers[c], action)]
             ELSE producers
        /\ jobs' = [jobs EXCEPT ![i].status = "promoted"]
        /\ Returns("JobSucceeds", FALSE)
        /\ UNCHANGED <<config, dirs>>

\* the transcode failed or was stopped: no post-job action runs, and whatever
\* lies at the output path stays
JobFails(i) ==
    /\ jobs[i].status = "queued"
    /\ jobs' = [jobs EXCEPT ![i].status = "failed"]
    /\ Returns("JobFails", FALSE)
    /\ UNCHANGED <<config, dirs, files, producers>>

(***************************************************************************)
(* The operations of ProxyManager as actions.                              *)
(***************************************************************************)
World == [dirs |-> dirs, files |-> files, producers |-> producers, jobs |-> jobs]

Becomes(w) ==
    /\ Len(w.jobs) <= MaxJobs
    /\ dirs' = w.dirs
    /\ files' = w.files
    /\ producers' = w.producers
    /\ jobs' = w.jobs
    /\ UNCHANGED config

GenerateIfNotExists(c, replace) ==
    LET r == generateIfNotExists(World, c, replace)
    IN  /\ Becomes(r.w)
        /\ Returns("generateIfNotExists", r.ret)

GenerateIfNotExistsAll ==
    /\ Becomes(generateIfNotExistsAll(World))
    /\ Returns("generateIfNotExistsAll", FALSE)

\* the host application's "make proxy" command calls the generators directly,
\* with the Replace action
GenerateVideoProxy(c) ==
    /\ producers[c].valid
    /\ isAvformat(producers[c].mlt_service)
    /\ Becomes(generateVideoProxy(World, c, TRUE, "generateVideoProxy"))
    /\ Returns("generateVideoProxy", FALSE)

GenerateImageProxy(c) ==
    /\ producers[c].valid
    /\ isValidImage(producers[c])
    /\ Becomes(generateImageProxy(World, c, TRUE, "generateImageProxy"))
    /\ Returns("generateImageProxy", FALSE)

(***************************************************************************)
(* Saving the project: the host application serializes the media graph to  *)
(* a document (Mlt::Controller::saveXML, not part of the sources at hand)  *)
(* and hands it to filterXML.                                              *)
(***************************************************************************)
\* a property element as the reader sees it
propertyElement(name, value) ==
    << StartElement("property", << <<"name", name>> >>) >>
      \o (IF value = <<>> THEN <<>> ELSE << Characters(value) >>)
      \o << EndElement("property") >>

RECURSIVE propertyElements(_)
propertyElements(properties) ==
    IF properties = <<>> THEN <<>>
    ELSE propertyElement(Head(properties)[1], Head(properties)[2])
           \o propertyElements(Tail(properties))

\* the properties of a producer, in the order they were first set
producerProperties(producer) ==
    << <<"resource", producer.resource>>,
       <<"mlt_service", <<producer.mlt_service>> >> >>
      \o (IF producer.warp_speed # Null
          THEN << <<"warp_speed", producer.warp_speed>> >> ELSE <<>>)
      \o (IF producer.warp_resource # Null
          THEN << <<"warp_resource", producer.warp_resource>> >> ELSE <<>>)
      \o (IF producer.isProxy # 0
          THEN << <<kIsProxyProperty, <<"1">> >> >> ELSE <<>>)
      \o (IF producer.originalResource # Null
          THEN << <<kOriginalResourceProperty, producer.originalResource>> >>
          ELSE <<>>)

RECURSIVE producerElements(_, _)
producerElements(graph, c) ==
    IF c > NumClips THEN <<>>
    ELSE (IF graph[c].valid
          THEN << StartElement("producer", << <<"id", <<"producer">> >> >>) >>
                 \o propertyElements(producerProperties(graph[c]))
                 \o << EndElement("producer"), Characters(<<"\n">>) >>
          ELSE <<>>)
         \o producerElements(graph, c + 1)

saveXML(graph) ==
    << Token("StartDocument", "", <<>>, <<>>),
       StartElement("mlt", <<>>), Characters(<<"\n">>) >>
      \o producerElements(graph, 1)
      \o << EndElement("mlt"), Token("EndDocument", "", <<>>, <<>>) >>

DocumentPath == <<"/", "d", "/", "project", ".mlt">>

\* the project is saved with absolute paths; saving it again right away
\* gives the same document
SaveXML ==
    /\ last.op # "filterXML"
    /\ xml' = filterXML(DocumentPath, saveXML(producers), <<>>, TRUE)
    /\ last' = [op |-> "filterXML", ret |-> xml'.ret]
    /\ UNCHANGED <<config, dirs, files, producers, jobs>>

\* filterXML on the document at hand
FilterXML(opened) ==
    /\ xml' = filterXML(DocumentPath, inputDocument, inputRoot, opened)
    /\ last' = [op |-> "filterXML", ret |-> xml'.ret]
    /\ UNCHANGED <<config, dirs, files, producers, jobs>>

(***************************************************************************)
(* The initial states: a configuration, a cache left by earlier runs, and  *)
(* a media graph.                                                          *)
(***************************************************************************)
ProjectPath == <<"/", "p">>
MediaA == <<"/", "m", "/", "a", ".mov">>
MediaB == <<"/", "m", "/", "b", ".png">>
HashA == <<"h1">>
HashB == <<"h2">>

VideoProducer ==
    [valid |-> TRUE, mlt_service |-> "avformat", hash |-> HashA,
     resource |-> MediaA, warp_resource |-> Null, isProxy |-> 0,
     originalResource |-> Null, disableProxy |-> 0, sequence |-> 0,
     width |-> 1920, height |-> 1080, colorspace |-> 709,
     video_index |-> 0, audio_index |-> 1, warp_speed |-> Null]

ImageProducer ==
    [VideoProducer EXCEPT !.mlt_service = "qimage", !.resource = MediaB]

\* a clip between the two thresholds, of a service that only starts with avformat
MidSizeProducer ==
    [VideoProducer EXCEPT !.mlt_service = "avformat-novalidate", !.hash = HashB,
                          !.width = 960, !.height = 720]

\* the video played at twice its speed: resource is "<speed>:<path>"
TimewarpProducer ==
    [VideoProducer EXCEPT !.mlt_service = "timewarp",
                          !.resource = <<"2", ":">> \o MediaA,
                          !.warp_speed = <<"2">>, !.warp_resource = MediaA]

ProducerShapes ==
    { VideoProducer,
      TimewarpProducer,
      ImageProducer,
      MidSizeProducer,
      [VideoProducer EXCEPT !.valid = FALSE],
      [VideoProducer EXCEPT !.disableProxy = 1],
      [VideoProducer EXCEPT !.isProxy = 1, !.originalResource = MediaA,
                            !.resource = filePath(proxyFolder,
                                                  HashA \o kProxyVideoExtension)],
      [ImageProducer EXCEPT !.mlt_service = "pixbuf", !.sequence = 1],
      [VideoProducer EXCEPT !.mlt_service = "color"] }

\* the media graphs: one medium used by every clip, or a video and stills
Graphs ==
    { [c \in Clips |-> shape] : shape \in ProducerShapes }
      \cup { [c \in Clips |-> IF c = 1 THEN VideoProducer ELSE ImageProducer] }

\* the settings that matter to a graph: the preview scale decides only for
\* the mid-size clip, and the disabled feature is the same for every clip
SettingsOf(graph) ==
    { s \in [proxyEnabled : BOOLEAN, proxyUseProjectFolder : BOOLEAN,
             playerPreviewScale : {0, 720}, proxyUseHardware : {FALSE},
             encodeHardware : {{}}] :
        /\ s.playerPreviewScale # 0 => graph[1] = MidSizeProducer
        /\ ~s.proxyEnabled => graph[1] \in {VideoProducer, [VideoProducer EXCEPT !.mlt_service = "color"]} }

ProxiesOf(pf) == filePath(pf, <<"proxies">>)

\* the directories there may be, given the project folder
DirConfigs(pf) ==
    IF pf = <<>>
    THEN { {proxyFolder} }
    ELSE { {proxyFolder}, {proxyFolder, pf}, {proxyFolder, pf, ProxiesOf(pf)} }

\* the files earlier runs may have left: ready proxies in either folder, and
\* a file (not a directory) named proxies in the project folder
FileConfigs(pf, ds) ==
    LET readyGlobal == [path |-> filePath(proxyFolder, HashA \o kProxyVideoExtension),
                        len |-> 1]
        readyProject == [path |-> filePath(ProxiesOf(pf), HashA \o kProxyVideoExtension),
                         len |-> 1]
        plainFile == [path |-> ProxiesOf(pf), len |-> 1]
    IN  { {}, {readyGlobal} }
          \cup (IF ProxiesOf(pf) \in ds
                THEN { {readyProject}, {readyProject, readyGlobal} }
                ELSE IF pf \in ds THEN { {plainFile} } ELSE {})

\* a read-only folder and a file named proxies are told apart only when
\* dir() leads there
Relevant(s, pf, ds, ro, fs) ==
    LET inProject == s.proxyUseProjectFolder /\ pf # <<>> /\ pf \in ds
    IN  /\ proxyFolder \in ro => ~inProject
        /\ pf \in ro => inProject /\ ProxiesOf(pf) \notin ds
        /\ fileAt(fs, ProxiesOf(pf)) => inProject

Init ==
    /\ producers \in Graphs
    /\ settings \in SettingsOf(producers)
    /\ projectFolder \in {<<>>, ProjectPath}
    /\ dirs \in DirConfigs(projectFolder)
    /\ readOnly \in { {}, {proxyFolder}, {ProjectPath} \cap dirs }
    /\ files \in FileConfigs(projectFolder, dirs)
    /\ Relevant(settings, projectFolder, dirs, readOnly, files)
    /\ fileAt(files, filePath(proxyFolder, HashA \o kProxyVideoExtension))
         => producers[1] = VideoProducer
    \* the graph of two media starts on an empty cache that can be written
    /\ producers[1] # producers[NumClips]
         => /\ dirs = {proxyFolder, ProjectPath, ProxiesOf(ProjectPath)}
            /\ readOnly = {}
            /\ files = {}
    /\ jobs = <<>>
    /\ inputDocument = <<>>
    /\ inputRoot = <<>>
    /\ xml = NoXml
    /\ callers = <<>>
    /\ ffmpeg = NoCall
    /\ last = [op |-> "none", ret |-> FALSE]

Next ==
    \/ \E c \in Clips, replace \in BOOLEAN : GenerateIfNotExists(c, replace)
    \/ GenerateIfNotExistsAll
    \/ \E c \in Clips : GenerateVideoProxy(c)
    \/ \E c \in Clips : GenerateImageProxy(c)
    \/ \E i \in 1..Len(jobs) : JobSucceeds(i)
    \/ \E i \in 1..Len(jobs) : JobFails(i)
    \/ SaveXML

Spec == Init /\ [][Next]_vars

\* the clips tagged by generateIfNotExists and generateIfNotExistsAll alone:
\* no generator is called directly and the queue runs no Replace action
NextTag ==
    \/ \E c \in Clips, replace \in BOOLEAN : GenerateIfNotExists(c, replace)
    \/ GenerateIfNotExistsAll
    \/ \E i \in 1..Len(jobs) : jobs[i].action.type = "Finalize" /\ JobSucceeds(i)
    \/ \E i \in 1..Len(jobs) : JobFails(i)
    \/ SaveXML

SpecTag == Init /\ [][NextTag]_vars

(***************************************************************************)
(* The rewriter alone: a document and a root are drawn, filterXML runs.    *)
(***************************************************************************)
MaxProperties == 4

ProxyFile == filePath(proxyFolder, HashA \o kProxyVideoExtension)

PropertyAlphabet ==
    { <<"resource", ProxyFile>>,
      <<"resource", <<"/", "a", "/", "b", ".mov">> >>,
      <<kIsProxyProperty, <<"1">> >>,
      <<kOriginalResourceProperty, <<"/", "a", "/", "b", ".mov">> >>,
      <<kOriginalResourceProperty, <<"/", "a", "b", ".mov">> >>,
      <<"mlt_service", <<"timewarp">> >>,
      <<"warp_speed", <<"2">> >>,
      <<"warp_resource", ProxyFile>>,
      <<"length", <<>> >> }

\* the properties of an element: no name twice
PropertyLists ==
    { properties \in UNION { [1..n -> PropertyAlphabet] : n \in 0..MaxProperties } :
        \A i, j \in 1..Len(properties) :
            properties[i][1] = properties[j][1] => i = j }

Roots == { <<>>, <<"/", "a", "/">>, <<"/", "a">> }

RECURSIVE spacedProperties(_)
spacedProperties(properties) ==
    IF properties = <<>> THEN <<>>
    ELSE propertyElement(Head(properties)[1], Head(properties)[2])
           \o << Characters(<<"\n">>) >>
           \o spacedProperties(Tail(properties))

\* a producer with the properties, in a document of one of four shapes
Document(properties, shape) ==
    LET startDocument == Token("StartDocument", "", <<>>, <<>>)
        endDocument == Token("EndDocument", "", <<>>, <<>>)
        mlt == StartElement("mlt", << <<"version", <<"7">> >> >>)
        producer == StartElement("producer", << <<"id", <<"producer">> >> >>)
    IN  IF shape = "plain"
        THEN << startDocument, mlt, producer >>
               \o propertyElements(properties)
               \o << EndElement("producer"), EndElement("mlt"), endDocument >>
        ELSE IF shape = "text"
        THEN << startDocument, mlt, Characters(<<"\n">>), producer,
                Characters(<<"\n">>) >>
               \o spacedProperties(properties)
               \o << EndElement("producer"), Characters(<<"t">>),
                     EndElement("mlt"), endDocument >>
        ELSE IF shape = "nested"
        THEN << startDocument, Token("Comment", "", <<>>, <<"c">>), mlt, producer >>
               \o propertyElements(properties)
               \o << StartElement("filter", <<>>) >>
               \o propertyElement("length", <<"9">>)
               \o << EndElement("filter"), EndElement("producer"),
                     EndElement("mlt"), endDocument >>
        ELSE << startDocument, mlt, producer >>
               \o propertyElements(properties)
               \o << Token("Invalid", "", <<>>, <<>>) >>

\* a well-formed document whose only element is a property element
PropertyDocument(property) ==
    << Token("StartDocument", "", <<>>, <<>>) >>
      \o propertyElement(property[1], property[2])
      \o << Token("EndDocument", "", <<>>, <<>>) >>

Documents ==
    { Document(properties, shape) :
        properties \in PropertyLists,
        shape \in {"plain", "text", "nested", "broken"} }
      \cup { PropertyDocument(property) : property \in PropertyAlphabet }

InitXml ==
    /\ inputDocument \in Documents
    /\ inputRoot \in Roots
    /\ settings = [proxyEnabled |-> TRUE, proxyUseProjectFolder |-> FALSE,
                   playerPreviewScale |-> 0, proxyUseHardware |-> FALSE,
                   encodeHardware |-> {}]
    /\ projectFolder = <<>>
    /\ dirs = {proxyFolder}
    /\ readOnly = {}
    /\ files = {}
    /\ producers = [c \in Clips |-> VideoProducer]
    /\ jobs = <<>>
    /\ xml = NoXml
    /\ callers = <<>>
    /\ ffmpeg = NoCall
    /\ last = [op |-> "none", ret |-> FALSE]

NextXml == \E opened \in BOOLEAN : FilterXML(opened)

SpecXml == InitXml /\ [][NextXml]_vars

(***************************************************************************)
(* Two calls of generateIfNotExists side by side (two threads, or two runs *)
(* of the application on one cache): each call is at a position pc in the  *)
(* code, and one step is one probe of the cache, the creation of the       *)
(* marker, or the submission of the job.  No lock is taken anywhere in     *)
(* lines 416-460 or 75-90.                                                 *)
(***************************************************************************)
Callers == {1, 2}

\* a call in progress: the clip it is about, its replace flag, its position,
\* the file name generateVideoProxy/generateImageProxy computed, and (a
\* history of the cache, not of the code) whether a marker or a ready file
\* of its identity lay in a probed folder when it probed
Call(c, replace) ==
    [clip |-> c, replace |-> replace, pc |-> "fileExists", fileName |-> <<>>,
     markerAtProbe |-> FALSE, readyAtProbe |-> FALSE, submitted |-> 0]

pendingFileName(producer) ==
    IF isAvformat(producer.mlt_service)
    THEN producer.hash \o kProxyPendingVideoExtension
    ELSE producer.hash \o kProxyPendingImageExtension

Steps(op) ==
    /\ last' = [op |-> op, ret |-> FALSE]
    /\ xml' = NoXml
    /\ UNCHANGED <<environment, ffmpeg>>

\* lines 418-438: the guards and the ready probe
ProbeReady(k) ==
    LET call == callers[k]
        producer == producers[call.clip]
        ready == existsInProxyDirs(World, readyFileName(producer))
    IN  /\ call.pc = "fileExists"
        /\ IF /\ settings.proxyEnabled
              /\ producer.valid
              /\ producer.disableProxy = 0
              /\ producer.isProxy = 0
           THEN IF fileExists(World, producer)
                THEN /\ producers' = [producers EXCEPT
                                        ![call.clip] = retargeted(World, producer)]
                     /\ callers' = [callers EXCEPT ![k].pc = "done",
                                                   ![k].readyAtProbe = ready]
                ELSE /\ callers' = [callers EXCEPT ![k].pc = "filePending",
                                                   ![k].readyAtProbe = ready]
                     /\ UNCHANGED producers
           ELSE /\ callers' = [callers EXCEPT ![k].pc = "done"]
                /\ UNCHANGED producers
        /\ Steps("fileExists")
        /\ UNCHANGED <<dirs, files, jobs>>

\* lines 439-456: the pending probe and the size test
ProbePending(k) ==
    LET call == callers[k]
        producer == producers[call.clip]
        marker == existsInProxyDirs(World, pendingFileName(producer))
    IN  /\ call.pc = "filePending"
        /\ callers' = [callers EXCEPT
                         ![k].markerAtProbe = marker,
                         ![k].pc = IF /\ ~filePending(World, producer)
                                      /\ \/ isAvformat(producer.mlt_service)
                                         \/ isValidImage(producer)
                                      /\ largerThanThreshold(producer)
                                   THEN "touch" ELSE "done"]
        /\ Steps("filePending")
        /\ UNCHANGED <<dirs, files, producers, jobs>>

\* lines 79-89 and 206-210: dir(), and the marker file
Touch(k) ==
    LET call == callers[k]
        producer == producers[call.clip]
        fileName == IF isAvformat(producer.mlt_service)
                    THEN pendingVideoFile(World, producer)
                    ELSE pendingImageFile(World, producer)
    IN  /\ call.pc = "touch"
        /\ dirs' = dirMkdir(World)
        /\ files' = touch(dirs', files, dir(World), fileName)
        /\ callers' = [callers EXCEPT ![k].pc = "add", ![k].fileName = fileName]
        /\ Steps("touch")
        /\ UNCHANGED <<producers, jobs>>

\* lines 190-199 and 224-233: the job and its post-job action
Add(k) ==
    LET call == callers[k]
        producer == producers[call.clip]
    IN  /\ call.pc = "add"
        /\ Len(jobs) < MaxJobs
        /\ jobs' = Append(jobs,
                     newJob(IF isAvformat(producer.mlt_service)
                            THEN "FfmpegJob" ELSE "MeltJob",
                            call.fileName,
                            postJobAction(resource(producer), call.fileName,
                                          producer.hash, call.replace),
                            producer.hash, "generateIfNotExists"))
        /\ callers' = [callers EXCEPT ![k].pc = "done",
                                      ![k].submitted = Len(jobs')]
        /\ Steps("add")
        /\ UNCHANGED <<dirs, files, producers>>

\* both calls are about one identity: two clips of one medium, or one clip
SameMedium == { [c \in Clips |-> shape] : shape \in {VideoProducer, ImageProducer} }

InitConc ==
    /\ producers \in SameMedium
    /\ settings \in SettingsOf(producers)
    /\ settings.proxyEnabled
    /\ projectFolder \in {<<>>, ProjectPath}
    /\ dirs \in DirConfigs(projectFolder)
    /\ readOnly \in { {}, {proxyFolder}, {ProjectPath} \cap dirs }
    /\ files = {}
    /\ Relevant(settings, projectFolder, dirs, readOnly, files)
    /\ jobs = <<>>
    /\ inputDocument = <<>>
    /\ inputRoot = <<>>
    /\ xml = NoXml
    /\ ffmpeg = NoCall
    /\ callers \in { [k \in Callers |-> Call(IF k = 1 THEN 1 ELSE c, replace)] :
                       c \in 1..2, replace \in BOOLEAN }
    /\ last = [op |-> "none", ret |-> FALSE]

NextConc ==
    \/ \E k \in Callers : ProbeReady(k)
    \/ \E k \in Callers : ProbePending(k)
    \/ \E k \in Callers : Touch(k)
    \/ \E k \in Callers : Add(k)
    \/ \E i \in 1..Len(jobs) : JobSucceeds(i)

SpecConc == InitConc /\ [][NextConc]_vars

(***************************************************************************)
(* The command line alone: the settings of the hardware encoders and a     *)
(* medium are drawn, generateVideoProxy is called with every scan mode,    *)
(* range and aspect ratio, and the args of its job are observed.           *)
(***************************************************************************)
ScanModes ==
    {"Automatic", "Progressive", "InterlacedTopFieldFirst", "InterlacedBottomFieldFirst"}

AspectRatios == { <<0, 0>>, <<16, 9>> }

\* the encoders the cascade knows
HardwareEncoders ==
    {"hevc_nvenc", "hevc_qsv", "hevc_amf", "hevc_vaapi", "h264_vaapi",
     "hevc_videotoolbox"}

\* Settings.encodeHardware(): any of them, or also one the cascade ignores
EncodeHardwareLists ==
    (SUBSET HardwareEncoders) \cup { {"h264_nvenc"}, {"h264_nvenc", "h264_vaapi"} }

\* a PAL medium whose audio stream comes first, and an SMPTE 240M medium
PalProducer ==
    [VideoProducer EXCEPT !.colorspace = 601, !.width = 720, !.height = 576,
                          !.video_index = 1, !.audio_index = 0]

Smpte240Producer == [VideoProducer EXCEPT !.colorspace = 240]

MakeVideoProxy(c, fullRange, scanMode, aspectRatio) ==
    LET w == generateVideoProxy(World, c, TRUE, "generateVideoProxy")
    IN  /\ producers[c].valid
        /\ isAvformat(producers[c].mlt_service)
        /\ Len(w.jobs) <= MaxJobs
        /\ dirs' = w.dirs
        /\ files' = w.files
        /\ producers' = w.producers
        /\ jobs' = w.jobs
        /\ ffmpeg' = [fullRange |-> fullRange, scanMode |-> scanMode,
                      aspectRatio |-> aspectRatio,
                      args |-> ffmpegArgs(World, c, fullRange, scanMode,
                                          aspectRatio)]
        /\ Returns("generateVideoProxy", FALSE)
        /\ UNCHANGED <<environment, callers>>

InitArgs ==
    /\ settings \in [proxyEnabled : {TRUE}, proxyUseProjectFolder : {FALSE},
                     playerPreviewScale : {0, 720},
                     proxyUseHardware : BOOLEAN,
                     encodeHardware : EncodeHardwareLists]
    /\ projectFolder = <<>>
    /\ dirs = {proxyFolder}
    /\ readOnly = {}
    /\ files = {}
    /\ producers \in { [c \in Clips |-> shape] :
                         shape \in {VideoProducer, PalProducer, Smpte240Producer} }
    /\ jobs = <<>>
    /\ inputDocument = <<>>
    /\ inputRoot = <<>>
    /\ xml = NoXml
    /\ callers = <<>>
    /\ ffmpeg = NoCall
    /\ last = [op |-> "none", ret |-> FALSE]

NextArgs ==
    \E c \in Clips, fullRange \in BOOLEAN, scanMode \in ScanModes,
       aspectRatio \in AspectRatios :
        MakeVideoProxy(c, fullRange, scanMode, aspectRatio)

SpecArgs == InitArgs /\ [][NextArgs]_vars

(***************************************************************************)
(* The properties.                                                         *)
(***************************************************************************)
hasSuffix(path, suffix) ==
    /\ Len(path) >= Len(suffix)
    /\ SubSeq(path, Len(path) - Len(suffix) + 1, Len(path)) = suffix

IsPendingPath(path) ==
    \/ hasSuffix(path, kProxyPendingVideoExtension)
    \/ hasSuffix(path, kProxyPendingImageExtension)

IsReadyPath(path) ==
    /\ hasSuffix(path, kProxyVideoExtension) \/ hasSuffix(path, kProxyImageExtension)
    /\ ~IsPendingPath(path)

\* the ready and the pending suffix of the media kind a job type transcodes
ReadySuffix(type) ==
    IF type = "FfmpegJob" THEN kProxyVideoExtension ELSE kProxyImageExtension

PendingSuffix(type) ==
    IF type = "FfmpegJob" THEN kProxyPendingVideoExtension
    ELSE kProxyPendingImageExtension

\* the guards of generateIfNotExists that do not look at the cache
Eligible(producer) ==
    /\ settings.proxyEnabled
    /\ producer.valid
    /\ producer.disableProxy = 0
    /\ producer.isProxy = 0

Absent(w, producer) == ~fileExists(w, producer) /\ ~filePending(w, producer)
Pending(w, producer) == ~fileExists(w, producer) /\ filePending(w, producer)

\* the generator of the clip's media kind, called as generateIfNotExists does
generated(w, c) ==
    IF isAvformat(w.producers[c].mlt_service)
    THEN generateVideoProxy(w, c, FALSE, "generateIfNotExists")
    ELSE generateImageProxy(w, c, FALSE, "generateIfNotExists")

HasGenerator(producer) ==
    producer.valid /\ (isAvformat(producer.mlt_service) \/ isValidImage(producer))

\* C1: calls of generateIfNotExists made one at a time submit at most one
\* job for an identity (hash and media kind) as long as no ready file of
\* that identity has appeared, also after a job failed.
C1_SingleFlight ==
    \A i, j \in 1..Len(jobs) :
        ( /\ i # j
          /\ jobs[i].caller = "generateIfNotExists"
          /\ jobs[j].caller = "generateIfNotExists"
          /\ jobs[i].hash = jobs[j].hash
          /\ jobs[i].type = jobs[j].type )
        => \E f \in files :
              hasSuffix(f.path, jobs[i].hash \o ReadySuffix(jobs[i].type))

\* C3: when generateVideoProxy or generateImageProxy adds its job to the
\* queue, a zero-length file lies at the job's pending output path.
C3_MarkerBeforeSubmit ==
    \A c \in Clips :
        HasGenerator(producers[c]) =>
            LET w == generated(World, c)
                job == w.jobs[Len(w.jobs)]
            IN  [path |-> job.out, len |-> 0] \in w.files

\* C4: in every configuration, the marker the generator creates for an
\* eligible Absent clip lies where filePending probes: the clip is Pending
\* afterwards.
C4_AbsentBecomesPending ==
    \A c \in Clips :
        ( /\ Eligible(producers[c])
          /\ HasGenerator(producers[c])
          /\ Absent(World, producers[c]) )
        => Pending(generated(World, c), producers[c])

\* C5: when generateIfNotExists returns true, the clip's new resource is the
\* path of a ready-suffixed file that exists, and it is the file in the
\* project's proxies folder whenever the ready file exists there.
C5_RetargetedAtExistingFile ==
    \A c \in Clips, replace \in BOOLEAN :
        LET r == generateIfNotExists(World, c, replace)
            to == r.w.producers[c].resource
            inProject == filePath(filePath(projectFolder, <<"proxies">>),
                                  readyFileName(producers[c]))
        IN  r.ret =>
              /\ IsReadyPath(to)
              /\ fileAt(files, to)
              /\ ( /\ cd(dirs, projectFolder, <<"proxies">>)
                   /\ fileAt(files, inProject) ) => to = inProject

\* C7: once the queue has run Finalize for a job that generateIfNotExists
\* submitted and whose transcode succeeded, fileExists reports the identity
\* Ready, at the promoted path: the pending path with the ready suffix, in
\* the same directory.
C7_PromotedIsReady ==
    \A i \in 1..Len(jobs) :
        ( /\ jobs[i].caller = "generateIfNotExists"
          /\ jobs[i].action.type = "Finalize"
          /\ jobs[i].status = "promoted" )
        => /\ fileAt(files, promotedPath(jobs[i].out))
           /\ existsInProxyDirs(World, jobs[i].hash \o ReadySuffix(jobs[i].type))

C6_Step ==
    /\ \A i \in 1..Len(jobs') :
          /\ jobs'[i].out = jobs'[i].action.dstFile
          /\ hasSuffix(jobs'[i].out,
                       <<"/">> \o jobs'[i].hash \o PendingSuffix(jobs'[i].type))
    /\ last'.op # "JobSucceeds" =>
          /\ \A f \in files' :
                IsReadyPath(f.path) => fileAt(files, f.path)
          /\ \A f \in files :
                IsPendingPath(f.path) => fileAt(files', f.path)
          /\ \A c \in Clips :
                Pending(World, producers[c]) => Pending(World', producers[c])

\* C6: no operation of ProxyManager creates a ready-suffixed file or deletes
\* a pending marker, every job's output path and its post-job action's
\* pending path are the same path <hash><pending suffix>, and an identity
\* that is Pending stays Pending until a job completes.
C6_ReadyOnlyByCompletion == [][C6_Step]_vars

\* a clip is Pending, its job is queued, and an operation has just run
C6_PendingAfterOperation ==
    /\ last.op \in {"generateIfNotExistsAll", "filterXML"}
    /\ \E c \in Clips : Pending(World, producers[c])
    /\ \E i \in 1..Len(jobs) :
          jobs[i].status = "queued" /\ fileAt(files, jobs[i].out)

Ineligible(producer) ==
    \/ ~settings.proxyEnabled
    \/ ~producer.valid
    \/ producer.disableProxy # 0
    \/ producer.isProxy # 0
    \/ /\ ~isAvformat(producer.mlt_service)
       /\ ~(producer.mlt_service \in {"qimage", "pixbuf"} /\ producer.sequence = 0)

\* C9: for an ineligible clip (feature disabled, clip invalid, proxy
\* disabled, tagged as proxy, or neither avformat video nor a still image
\* that is no sequence) generateIfNotExists returns false, creates no file
\* and no folder and submits no job.
C9_IneligibleIsNoOp ==
    \A c \in Clips, replace \in BOOLEAN :
        LET r == generateIfNotExists(World, c, replace)
        IN  Ineligible(producers[c]) =>
              /\ ~r.ret
              /\ r.w.files = files
              /\ r.w.dirs = dirs
              /\ r.w.jobs = jobs

\* generateIfNotExists has just returned for a graph of ineligible clips
C9_CalledOnIneligible ==
    /\ last = [op |-> "generateIfNotExists", ret |-> FALSE]
    /\ \A c \in Clips : Ineligible(producers[c])
    /\ jobs = <<>>
    /\ \A f \in files : ~IsPendingPath(f.path)

\* the elements, attributes and properties of a token sequence: character
\* data outside the property elements left out, each property element as
\* one item with its name and its text
RECURSIVE structure(_, _)
structure(tokens, i) ==
    IF i > Len(tokens) THEN <<>>
    ELSE LET t == tokens[i]
         IN  IF t.type = "Characters" THEN structure(tokens, i + 1)
             ELSE IF t.type = "StartElement" /\ t.name = "property"
             THEN LET r == readElementText(tokens, i + 1, <<>>)
                  IN  << Token("property", "property",
                               << <<"name", attributeValue(t.attributes, "name")>> >>,
                               r.text) >>
                        \o structure(tokens, r.at + 1)
             ELSE <<t>> \o structure(tokens, i + 1)

\* the property sequences of a document that lie between two tags that are
\* not property tags: the buffers the rewriter flushes
RECURSIVE buffered(_, _, _)
buffered(tokens, i, properties) ==
    IF i > Len(tokens) THEN {}
    ELSE LET t == tokens[i]
         IN  IF t.type = "StartElement" /\ t.name = "property"
             THEN LET r == readElementText(tokens, i + 1, <<>>)
                  IN  IF r.error THEN {}
                      ELSE buffered(tokens, r.at + 1,
                             Append(properties,
                                    <<attributeValue(t.attributes, "name"), r.text>>))
             ELSE IF t.type \in {"StartElement", "EndElement"}
             THEN {properties} \cup buffered(tokens, i + 1, <<>>)
             ELSE IF t.type = "Invalid" THEN {}
             ELSE buffered(tokens, i + 1, properties)

NoProxyMarker(properties) ==
    \A i \in 1..Len(properties) : properties[i][1] # kIsProxyProperty

\* C10: a buffered property sequence without the proxy marker is flushed as
\* the same (name, value) pairs in the same order, so a document in which no
\* element carries the marker is rewritten with every element, attribute
\* and property unchanged.
C10_NonProxyPassThrough ==
    LET buffers == buffered(inputDocument, 1, <<>>)
    IN  /\ \A properties \in buffers :
              NoProxyMarker(properties)
              => processProperties(properties, inputRoot) = properties
        /\ ( /\ xml.ran
             /\ xml.ret
             /\ \A properties \in buffers : NoProxyMarker(properties) )
           => structure(xml.out, 1) = structure(inputDocument, 1)

\* a document without the marker has been rewritten: it holds a resource
\* under the root and a stashed original resource
C10_RewrittenWithoutMarker ==
    LET buffers == buffered(inputDocument, 1, <<>>)
    IN  /\ xml.ran
        /\ xml.ret
        /\ inputRoot # <<>>
        /\ \A properties \in buffers : NoProxyMarker(properties)
        /\ \E properties \in buffers :
              /\ \E i \in 1..Len(properties) :
                    /\ properties[i][1] = "resource"
                    /\ startsWith(properties[i][2], inputRoot)
              /\ \E i \in 1..Len(properties) :
                    properties[i][1] = kOriginalResourceProperty

\* the property sequence without the properties of the given names
RECURSIVE without(_, _)
without(properties, names) ==
    IF properties = <<>> THEN <<>>
    ELSE IF Head(properties)[1] \in names THEN without(Tail(properties), names)
    ELSE <<Head(properties)>> \o without(Tail(properties), names)

\* the values of the properties of one name, in order
RECURSIVE valuesOf(_, _)
valuesOf(properties, name) ==
    IF properties = <<>> THEN <<>>
    ELSE IF Head(properties)[1] = name
    THEN <<Head(properties)[2]>> \o valuesOf(Tail(properties), name)
    ELSE valuesOf(Tail(properties), name)

\* the original path of a proxy-tagged buffer: the stashed original resource,
\* or the resource as it stands when nothing is stashed
OriginalPath(properties) ==
    IF valuesOf(properties, kOriginalResourceProperty) # <<>>
    THEN valuesOf(properties, kOriginalResourceProperty)[1]
    ELSE IF valuesOf(properties, "resource") # <<>>
    THEN valuesOf(properties, "resource")[1]
    ELSE <<>>

\* a path with the root prefix removed, and the "/" that separated the two
WithoutRoot(path, root) ==
    IF root # <<>> /\ startsWith(path, root)
    THEN LET rest == mid(path, Len(root))
         IN  IF rest # <<>> /\ rest[1] = "/" THEN Tail(rest) ELSE rest
    ELSE path

\* the buffers of the document at hand that carry the proxy marker
ProxyBuffers ==
    { properties \in buffered(inputDocument, 1, <<>>) : ~NoProxyMarker(properties) }

IsTimewarp(properties) ==
    \E i \in 1..Len(properties) : properties[i] = <<"mlt_service", <<"timewarp">> >>

\* C11: a buffer with the proxy marker is flushed without the marker and
\* without the original-resource property; every property other than
\* resource (and warp_resource, which C12 is about) keeps name, value and
\* order; resource becomes the original path with the root prefix removed,
\* whatever the order of the properties.
C11_ProxyRewrite ==
    \A properties \in ProxyBuffers :
        LET out == processProperties(properties, inputRoot)
            rewritten == {"resource", "warp_resource"}
            dropped == {kIsProxyProperty, kOriginalResourceProperty}
        IN  /\ without(out, dropped) = out
            /\ without(out, rewritten) = without(properties, rewritten \cup dropped)
            /\ Len(valuesOf(out, "resource")) = Len(valuesOf(properties, "resource"))
            /\ ~IsTimewarp(properties) =>
                  \A i \in 1..Len(valuesOf(out, "resource")) :
                      valuesOf(out, "resource")[i]
                          = WithoutRoot(OriginalPath(properties), inputRoot)

\* C12: a proxy-tagged buffer with mlt_service=timewarp is flushed with
\* resource = "<speed>:<path>", speed the buffered warp_speed ("1" when there
\* is none) and path the original path with the root prefix removed, and
\* with warp_resource = that same path, whatever the order of the properties.
C12_TimeRemap ==
    \A properties \in ProxyBuffers :
        IsTimewarp(properties) =>
            LET out == processProperties(properties, inputRoot)
                path == WithoutRoot(OriginalPath(properties), inputRoot)
                speed == IF valuesOf(properties, "warp_speed") # <<>>
                         THEN valuesOf(properties, "warp_speed")[1]
                         ELSE <<"1">>
            IN  /\ \A i \in 1..Len(valuesOf(out, "resource")) :
                      valuesOf(out, "resource")[i] = speed \o <<":">> \o path
                /\ Len(valuesOf(out, "warp_resource"))
                      = Len(valuesOf(properties, "warp_resource"))
                /\ \A i \in 1..Len(valuesOf(out, "warp_resource")) :
                      valuesOf(out, "warp_resource")[i] = path

\* the character data of a token sequence that is neither the text of a
\* property element nor inside a property-buffering window (from a property
\* element to the tag that is not a property tag and flushes the buffer)
RECURSIVE freeText(_, _, _)
freeText(tokens, i, inWindow) ==
    IF i > Len(tokens) THEN <<>>
    ELSE LET t == tokens[i]
         IN  IF t.type = "StartElement" /\ t.name = "property"
             THEN freeText(tokens, readElementText(tokens, i + 1, <<>>).at + 1, TRUE)
             ELSE IF t.type \in {"StartElement", "EndElement"}
             THEN freeText(tokens, i + 1, FALSE)
             ELSE IF t.type = "Characters" /\ ~inWindow
             THEN <<t.text>> \o freeText(tokens, i + 1, inWindow)
             ELSE freeText(tokens, i + 1, inWindow)

\* C13: the character data outside the property elements and outside the
\* property-buffering window is written to the output unmodified and in
\* order, the text after an end tag of an element with property children
\* included.
C13_CharactersPassThrough ==
    (xml.ran /\ xml.ret)
    => freeText(xml.out, 1, FALSE) = freeText(inputDocument, 1, FALSE)

\* a document the reader reads to its end without an error
ReadsCleanly(document) ==
    \A i \in 1..Len(document) : document[i].type # "Invalid"

\* C14: on a parse error filterXML returns false, leaves the caller's
\* fileName as it was and discards the temporary output; on clean completion
\* it returns true, fileName becomes the path of the temporary output and
\* that output is kept; fileName changes exactly when the result is true.
C14_FilterXMLOutcome ==
    /\ \A opened \in BOOLEAN :
          LET r == filterXML(DocumentPath, inputDocument, inputRoot, opened)
          IN  /\ ~ReadsCleanly(inputDocument) =>
                    ~r.ret /\ r.fileName = DocumentPath /\ ~r.kept
              /\ (opened /\ ReadsCleanly(inputDocument)) =>
                    /\ r.ret
                    /\ r.fileName = filePath(dirName(DocumentPath), TempFileName)
                    /\ r.kept
              /\ (r.fileName # DocumentPath) <=> r.ret
    /\ xml.ran =>
          /\ (xml.fileName # DocumentPath) <=> xml.ret
          /\ xml.kept <=> xml.ret
          /\ xml.ret => ReadsCleanly(inputDocument)

\* filterXML has run into a parse error after writing part of the output
C14_FailedOnParseError ==
    /\ xml.ran
    /\ ~xml.ret
    /\ ~ReadsCleanly(inputDocument)
    /\ xml.out # <<>>
    /\ xml.fileName = DocumentPath

\* C15: after generateIfNotExistsAll every producer it collected carries the
\* proxy marker, with or without a job submitted for it; the jobs it submits
\* have the Finalize action; a second generateIfNotExistsAll over the same
\* graph submits no job and creates no marker.
C15_ScanIdempotent ==
    LET collected == findNonProxyProducers(World, 1)
        once == generateIfNotExistsAll(World)
        twice == generateIfNotExistsAll(once)
    IN  /\ \A i \in 1..Len(collected) : once.producers[collected[i]].isProxy = 1
        /\ \A i \in (Len(jobs) + 1)..Len(once.jobs) :
              once.jobs[i].action.type = "Finalize"
        /\ twice.jobs = once.jobs
        /\ twice.files = once.files
        /\ twice.dirs = once.dirs
        /\ twice.producers = once.producers

\* the scan has run over two clips of one medium: one job, with Finalize,
\* and both clips tagged without being retargeted
C15_ScannedOnce ==
    /\ last.op = "generateIfNotExistsAll"
    /\ Len(jobs) = 1
    /\ jobs[1].action.type = "Finalize"
    /\ jobs[1].status = "queued"
    /\ \A c \in Clips :
          /\ producers[c].isProxy = 1
          /\ producers[c].originalResource = Null
          /\ producers[c].hash = jobs[1].hash

\* C16: the suffix accessors return .mp4, .pending.mp4, .jpg and
\* .pending.jpg; for each media kind the pending suffix differs from the
\* ready suffix and is the suffix under which the generator creates the
\* marker and filePending probes.
C16_SuffixAccessors ==
    /\ videoFilenameExtension = <<".mp4">>
    /\ pendingVideoExtension = <<".pending", ".mp4">>
    /\ imageFilenameExtension = <<".jpg">>
    /\ pendingImageExtension = <<".pending", ".jpg">>
    /\ pendingVideoExtension # videoFilenameExtension
    /\ pendingImageExtension # imageFilenameExtension
    /\ \A c \in Clips :
          LET producer == producers[c]
              suffix == IF isAvformat(producer.mlt_service)
                        THEN pendingVideoExtension
                        ELSE pendingImageExtension
          IN  HasGenerator(producer) =>
                /\ generated(World, c).jobs[Len(jobs) + 1].out
                      = filePath(dir(World), producer.hash \o suffix)
                /\ filePending(World, producer)
                      = existsInProxyDirs(World, producer.hash \o suffix)

\* the argument that follows the first occurrence of an option in args
valueOf(args, option) ==
    args[(CHOOSE i \in 1..Len(args) :
            /\ args[i] = <<option>>
            /\ \A j \in 1..(i - 1) : args[j] # <<option>>) + 1]

\* C17: the filter expression built by generateVideoProxy ends with the
\* suffix ,format=nv12,hwupload if and only if hardware encoding is enabled
\* and the encoder the cascade chose is hevc_vaapi or h264_vaapi.
C17_HardwareUpload ==
    ffmpeg.args # <<>> =>
        ( hasSuffix(valueOf(ffmpeg.args, "-vf"),
                    <<",", "format=nv12", ",", "hwupload">>)
          <=> /\ settings.proxyUseHardware
              /\ valueOf(ffmpeg.args, "-codec:v")
                    \in { <<"hevc_vaapi">>, <<"h264_vaapi">> } )

\* the priority order of the hardware encoders
Priority ==
    <<"hevc_nvenc", "hevc_qsv", "hevc_amf", "hevc_vaapi", "h264_vaapi",
      "hevc_videotoolbox">>

\* the encoder selection expected of a list: the first of the priority
\* order that is available, libx264 without hardware or without any of them
Selected ==
    IF /\ settings.proxyUseHardware
       /\ \E i \in 1..Len(Priority) : Priority[i] \in settings.encodeHardware
    THEN Priority[CHOOSE i \in 1..Len(Priority) :
                    /\ Priority[i] \in settings.encodeHardware
                    /\ \A j \in 1..(i - 1) : Priority[j] \notin settings.encodeHardware]
    ELSE "libx264"

\* the arguments that select an encoder, with its fixed parameters
Selection(encoder) ==
    CASE encoder = "hevc_nvenc" ->
            <<"-codec:v", "hevc_nvenc", "-rc", "constqp", "-vglobal_quality", "37">>
      [] encoder = "hevc_qsv" ->
            <<"-load_plugin", "hevc_hw", "-codec:v", "hevc_qsv",
              "-global_quality:v", "36", "-look_ahead", "1">>
      [] encoder = "hevc_amf" ->
            <<"-codec:v", "hevc_amf", "-rc", "1", "-qp_i", "32", "-qp_p", "32">>
      [] encoder = "hevc_vaapi" ->
            <<"-init_hw_device", "vaapi=vaapi0:,connection_type=x11",
              "-filter_hw_device", "vaapi0", "-codec:v", "hevc_vaapi", "-qp", "37">>
      [] encoder = "h264_vaapi" ->
            <<"-init_hw_device", "vaapi=vaapi0:,connection_type=x11",
              "-filter_hw_device", "vaapi0", "-codec:v", "h264_vaapi", "-qp", "30">>
      [] encoder = "hevc_videotoolbox" ->
            <<"-codec:v", "hevc_videotoolbox", "-b:v", "2M">>
      [] OTHER ->
            <<"-codec:v", "libx264", "-preset", "veryfast", "-crf", "23">>

\* the position of the first occurrence of an option in args
indexOf(args, option) ==
    CHOOSE i \in 1..Len(args) :
        /\ args[i] = <<option>>
        /\ \A j \in 1..(i - 1) : args[j] # <<option>>

\* C18: generateVideoProxy emits exactly one video encoder selection; with
\* hardware enabled it is the first available of hevc_nvenc, hevc_qsv,
\* hevc_amf, hevc_vaapi, h264_vaapi, hevc_videotoolbox with that encoder's
\* fixed parameters, and libx264 with preset veryfast and crf 23 when
\* hardware is disabled or none of them is available.
C18_EncoderCascade ==
    ffmpeg.args # <<>> =>
        LET args == ffmpeg.args
            expected == Selection(Selected)
        IN  /\ Cardinality({ i \in 1..Len(args) : args[i] = <<"-codec:v">> }) = 1
            /\ valueOf(args, "-codec:v") = <<Selected>>
            /\ SubSeq(args, indexOf(args, "-pix_fmt") + 2, indexOf(args, "-g") - 1)
                 = [i \in 1..Len(expected) |-> <<expected[i]>>]

\* hevc_qsv was chosen before hevc_vaapi and hevc_videotoolbox
C18_FirstAvailableChosen ==
    /\ settings.proxyUseHardware
    /\ settings.encodeHardware = {"hevc_qsv", "hevc_vaapi", "hevc_videotoolbox"}
    /\ ffmpeg.args # <<>>
    /\ valueOf(ffmpeg.args, "-codec:v") = <<"hevc_qsv">>

\* the tokens of a filter expression before its scale stage
beforeScale(filter) ==
    SubSeq(filter, 1, (CHOOSE k \in 1..Len(filter) :
                         /\ filter[k] = "scale="
                         /\ \A j \in 1..(k - 1) : filter[j] # "scale=") - 1)

\* the tokens of a filter expression from its scale stage on
fromScale(filter) ==
    SubSeq(filter, Len(beforeScale(filter)) + 1, Len(filter))

\* seq starts with prefix
hasPrefix(seq, prefix) ==
    /\ Len(seq) >= Len(prefix)
    /\ SubSeq(seq, 1, Len(prefix)) = prefix

\* C19: with scanMode Automatic the filter chain holds only the filter
\* yadif=deint=interlaced and no forced parity; with InterlacedTopFieldFirst
\* it holds parity=tff, with InterlacedBottomFieldFirst parity=bff, with
\* Progressive no deinterlace stage; the deinterlace stage, if any, precedes
\* the scale stage, whose height is the target resolution.
C19_DeinterlaceByScanMode ==
    ffmpeg.args # <<>> =>
        LET filter == valueOf(ffmpeg.args, "-vf")
            stage == beforeScale(filter)
            scale == fromScale(filter)
            target == IF settings.playerPreviewScale # 0
                      THEN settings.playerPreviewScale
                      ELSE 540
        IN  /\ \E k \in 1..Len(filter) : filter[k] = "scale="
            /\ ffmpeg.scanMode = "Automatic" =>
                  stage = <<"yadif=", "deint=interlaced", ",">>
            /\ ffmpeg.scanMode = "InterlacedTopFieldFirst" =>
                  stage = <<"yadif=", "parity=", "tff", ",">>
            /\ ffmpeg.scanMode = "InterlacedBottomFieldFirst" =>
                  stage = <<"yadif=", "parity=", "bff", ",">>
            /\ ffmpeg.scanMode = "Progressive" => stage = <<>>
            /\ \A k \in 1..Len(scale) :
                  scale[k] \notin {"yadif=", "parity=", "deint=interlaced"}
            /\ hasPrefix(scale, <<"scale=", "width=-2", ":", "height=">>
                                  \o number(target) \o <<":">>)

\* a top-field-first call at the preview scale 720 forced the parity
C19_TopFieldFirstForced ==
    /\ ffmpeg.args # <<>>
    /\ ffmpeg.scanMode = "InterlacedTopFieldFirst"
    /\ settings.playerPreviewScale = 720
    /\ hasPrefix(valueOf(ffmpeg.args, "-vf"),
                 <<"yadif=", "parity=", "tff", ",", "scale=", "width=-2", ":",
                   "height=", "7", "2", "0">>)

\* the element events of a token sequence: <<kind, name>> for each start
\* tag, end tag and property element
RECURSIVE outline(_, _)
outline(tokens, i) ==
    IF i > Len(tokens) THEN <<>>
    ELSE LET t == tokens[i]
         IN  IF t.type = "StartElement" /\ t.name = "property"
             THEN << <<"property", attributeValue(t.attributes, "name")>> >>
                    \o outline(tokens, readElementText(tokens, i + 1, <<>>).at + 1)
             ELSE IF t.type \in {"StartElement", "EndElement"}
             THEN << <<t.type, t.name>> >> \o outline(tokens, i + 1)
             ELSE outline(tokens, i + 1)

\* the end of the run of property items that starts at i
RECURSIVE runEnd(_, _)
runEnd(items, i) ==
    IF i < Len(items) /\ items[i + 1][1] = "property"
    THEN runEnd(items, i + 1)
    ELSE i

\* an outline with, in every run of properties that holds the proxy marker,
\* the marker and the stashed original resource left out
RECURSIVE surviving(_, _)
surviving(items, i) ==
    IF i > Len(items) THEN <<>>
    ELSE IF items[i][1] # "property"
    THEN <<items[i]>> \o surviving(items, i + 1)
    ELSE LET j == runEnd(items, i)
             marked == \E k \in i..j : items[k][2] = kIsProxyProperty
         IN  SelectSeq(SubSeq(items, i, j),
                       LAMBDA item :
                          ~marked \/ item[2] \notin {kIsProxyProperty,
                                                     kOriginalResourceProperty})
               \o surviving(items, j + 1)

\* C20: over a well-formed document every property element read is emitted
\* exactly once, in input order and before the start or end tag that
\* triggered its flush, unless it is the proxy marker or the original
\* resource of a buffer with the marker, which are not emitted; no property
\* is duplicated or carried into a later scope, and the buffer is empty when
\* the rewrite finishes.
C20_PropertyConservation ==
    (xml.ran /\ xml.ret) =>
        /\ outline(xml.out, 1) = surviving(outline(inputDocument, 1), 1)
        /\ xml.properties = <<>>

\* root and a relative path joined with exactly one "/" between them
Joined(root, path) ==
    IF root[Len(root)] = "/" THEN root \o path ELSE root \o <<"/">> \o path

\* C21: for a root that is not empty, with or without a trailing "/", and
\* an original path, the resource the rewriter writes is either the original
\* path unchanged or a value that, joined to the root with exactly one "/",
\* gives the original path back: the root is stripped only at the boundary
\* of a path component.
C21_RelativizationRoundTrip ==
    \A properties \in ProxyBuffers :
        (inputRoot # <<>> /\ ~IsTimewarp(properties)) =>
            LET out == processProperties(properties, inputRoot)
                original == OriginalPath(properties)
            IN  \A i \in 1..Len(valuesOf(out, "resource")) :
                    LET value == valuesOf(out, "resource")[i]
                    IN  \/ value = original
                        \/ Joined(inputRoot, value) = original

\* the resource a clip of the graph had before it was ever tagged
Untagged(producer) ==
    IF producer.mlt_service \in {"qimage", "pixbuf"} THEN MediaB
    ELSE IF producer.mlt_service = "timewarp" THEN <<"2", ":">> \o MediaA
    ELSE MediaA

\* the clips that carry the proxy marker
Tagged == { c \in Clips : producers[c].valid /\ producers[c].isProxy # 0 }

\* C22: a clip tagged by generateIfNotExists or generateIfNotExistsAll (the
\* marker with the stash and the proxy resource, or the marker alone with
\* the original resource), written to a document and rewritten with an
\* empty root, has the resource it had before it was tagged, and neither the
\* proxy marker nor the original-resource property.
C22_TagThenRewrite ==
    /\ \A c \in Tagged :
          LET out == processProperties(producerProperties(producers[c]), <<>>)
          IN  /\ valuesOf(out, "resource") = << Untagged(producers[c]) >>
              /\ without(out, {kIsProxyProperty, kOriginalResourceProperty}) = out
    /\ (last.op = "filterXML" /\ xml.ret) =>
          \A properties \in buffered(xml.out, 1, <<>>) :
              /\ NoProxyMarker(properties)
              /\ valuesOf(properties, kOriginalResourceProperty) = <<>>
              /\ \A i \in 1..Len(valuesOf(properties, "resource")) :
                    valuesOf(properties, "resource")[i]
                       \in { MediaA, MediaB, <<"2", ":">> \o MediaA }

====
